---- MODULE Spec2Model ----
(***************************************************************************)
(* A model of three parts of makani:                                       *)
(*   - the step wrappers of makani/models/stepper.py (SingleStepWrapper    *)
(*     and MultiStepWrapper), specification Spec;                          *)
(*   - VisualizationWrapper of makani/utils/visualize.py, SpecVis;         *)
(*   - SpectralConv and SpectralAttention of                               *)
(*     makani/models/common/spectral_convolution.py, SpecSpectral.         *)
(*                                                                         *)
(* Tensors are symbolic.  A tensor is a record [ch, grad]: ch is the list  *)
(* of its channel blocks, each block a term in prefix notation (a sequence *)
(* of strings), and grad tells whether the tensor is attached to the       *)
(* autograd graph.                                                         *)
(***************************************************************************)
EXTENDS Integers, Sequences, FiniteSets, TLC

VARIABLES
    \* ---- step wrappers
    n_future,           \* MultiStepWrapper.n_future
    push_forward_mode,  \* MultiStepWrapper.push_forward_mode
    training,           \* nn.Module.training of the MultiStepWrapper
    replace_state,      \* the replace_state argument of SingleStepWrapper.forward
    inp,                \* the input tensor handed to both wrappers
    s,                  \* the SingleStepWrapper's call: pc, locals, preprocessor, call log
    m,                  \* the MultiStepWrapper's call: pc, locals, preprocessor, call log
    \* ---- VisualizationWrapper
    vis,
    \* ---- SpectralConv / SpectralAttention
    op,                 \* the operator object: constructor arguments, outcome, attributes
    fw                  \* the forward() call on it: pc, locals, autocast state, transform calls

vars == <<n_future, push_forward_mode, training, replace_state, inp, s, m, vis, op, fw>>

stepperVars == <<n_future, push_forward_mode, training, replace_state, inp, s, m>>

\* ---------------------------------------------------------------------------
\* Bounds

MaxFuture == 2

\* ---------------------------------------------------------------------------
\* Symbolic tensors

RECURSIVE Flatten(_)
Flatten(blocks) ==
    IF blocks = <<>> THEN <<>> ELSE Head(blocks) \o Flatten(Tail(blocks))

\* The term of a tensor: its block when it has one, "cat n b1 .. bn" otherwise
Term(t) ==
    IF Len(t.ch) = 1 THEN t.ch[1]
    ELSE <<"cat", ToString(Len(t.ch))>> \o Flatten(t.ch)

NoTensor == [ch |-> <<>>, grad |-> FALSE]

PyBool(b) == IF b THEN "True" ELSE "False"

\* tensor.detach(): the same values, cut from the autograd graph
Detach(t) == [t EXCEPT !.grad = FALSE]

\* torch.cat(list, dim=1): the channel blocks of the list's tensors, in list order
RECURSIVE CatChannels(_)
CatChannels(list) ==
    IF list = <<>> THEN <<>> ELSE Head(list).ch \o CatChannels(Tail(list))

\* a concatenation that keeps the last prediction only
TorchCat_LastOnly(list) ==
    [ch |-> list[Len(list)].ch, grad |-> list[Len(list)].grad]

TorchCat(list) ==
    [ch |-> CatChannels(list), grad |-> \E i \in 1..Len(list) : list[i].grad]

\* ---------------------------------------------------------------------------
\* Preprocessor2D and the wrapped model (makani.models.preprocessor is not part
\* of the sources at hand: its operations are modelled from their contract).
\* The preprocessor's internal state is the list of the mutations since the
\* last replacement of the state.

update_internal_state(pre, replace) ==
    IF replace THEN <<"replace">> ELSE Append(pre, "advance")

history_compute_stats(pre, x) == Append(pre, "stats")

append_unpredicted_features(x) ==
    [ch |-> << <<"append_unpredicted_features">> \o Term(x) >>, grad |-> x.grad]

history_normalize(x, target) ==
    [ch |-> << <<"history_normalize", PyBool(target)>> \o Term(x) >>, grad |-> x.grad]

add_static_features(x) ==
    [ch |-> << <<"add_static_features">> \o Term(x) >>, grad |-> x.grad]

\* the wrapped model: its parameters require grad
model(x) ==
    [ch |-> << <<"model">> \o Term(x) >>, grad |-> TRUE]

correct_bias(x) ==
    [ch |-> << <<"correct_bias">> \o Term(x) >>, grad |-> x.grad]

history_denormalize(x, target) ==
    [ch |-> << <<"history_denormalize", PyBool(target)>> \o Term(x) >>, grad |-> x.grad]

add_residual(x, y) ==
    [ch |-> << <<"add_residual">> \o Term(x) \o Term(y) >>, grad |-> x.grad \/ y.grad]

append_history(x, y, step) ==
    [ch |-> << <<"append_history", ToString(step)>> \o Term(x) \o Term(y) >>,
     grad |-> x.grad \/ y.grad]

\* One entry of a wrapper's call log
Call(fn, flag, args) == [fn |-> fn, flag |-> flag, args |-> args]

\* ---------------------------------------------------------------------------
\* SingleStepWrapper.forward

SingleInit ==
    [pc |-> "update_internal_state", pre |-> <<"initial">>, log |-> <<>>,
     inpa |-> NoTensor, inpan |-> NoTensor, inpans |-> NoTensor,
     yn |-> NoTensor, y |-> NoTensor, out |-> NoTensor]

Single_update_internal_state ==
    /\ s.pc = "update_internal_state"
    /\ s' = [s EXCEPT !.pre = update_internal_state(s.pre, replace_state),
                      !.log = Append(s.log, Call("update_internal_state", PyBool(replace_state), <<>>)),
                      !.pc = "append_unpredicted_features"]
    /\ UNCHANGED <<n_future, push_forward_mode, training, replace_state, inp, m, vis, op, fw>>

Single_append_unpredicted_features ==
    /\ s.pc = "append_unpredicted_features"
    /\ s' = [s EXCEPT !.inpa = append_unpredicted_features(inp),
                      !.log = Append(s.log, Call("append_unpredicted_features", "", <<inp>>)),
                      !.pc = "history_compute_stats"]
    /\ UNCHANGED <<n_future, push_forward_mode, training, replace_state, inp, m, vis, op, fw>>

Single_history_compute_stats ==
    /\ s.pc = "history_compute_stats"
    /\ s' = [s EXCEPT !.pre = history_compute_stats(s.pre, s.inpa),
                      !.log = Append(s.log, Call("history_compute_stats", "", <<s.inpa>>)),
                      !.pc = "history_normalize"]
    /\ UNCHANGED <<n_future, push_forward_mode, training, replace_state, inp, m, vis, op, fw>>

Single_history_normalize ==
    /\ s.pc = "history_normalize"
    /\ s' = [s EXCEPT !.inpan = history_normalize(s.inpa, FALSE),
                      !.log = Append(s.log, Call("history_normalize", PyBool(FALSE), <<s.inpa>>)),
                      !.pc = "add_static_features"]
    /\ UNCHANGED <<n_future, push_forward_mode, training, replace_state, inp, m, vis, op, fw>>

Single_add_static_features ==
    /\ s.pc = "add_static_features"
    /\ s' = [s EXCEPT !.inpans = add_static_features(s.inpan),
                      !.log = Append(s.log, Call("add_static_features", "", <<s.inpan>>)),
                      !.pc = "model"]
    /\ UNCHANGED <<n_future, push_forward_mode, training, replace_state, inp, m, vis, op, fw>>

Single_model ==
    /\ s.pc = "model"
    /\ s' = [s EXCEPT !.yn = model(s.inpans),
                      !.log = Append(s.log, Call("model", "", <<s.inpans>>)),
                      !.pc = "correct_bias"]
    /\ UNCHANGED <<n_future, push_forward_mode, training, replace_state, inp, m, vis, op, fw>>

Single_correct_bias ==
    /\ s.pc = "correct_bias"
    /\ s' = [s EXCEPT !.yn = correct_bias(s.yn),
                      !.log = Append(s.log, Call("correct_bias", "", <<s.yn>>)),
                      !.pc = "history_denormalize"]
    /\ UNCHANGED <<n_future, push_forward_mode, training, replace_state, inp, m, vis, op, fw>>

Single_history_denormalize ==
    /\ s.pc = "history_denormalize"
    /\ s' = [s EXCEPT !.y = history_denormalize(s.yn, TRUE),
                      !.log = Append(s.log, Call("history_denormalize", PyBool(TRUE), <<s.yn>>)),
                      !.pc = "add_residual"]
    /\ UNCHANGED <<n_future, push_forward_mode, training, replace_state, inp, m, vis, op, fw>>

Single_add_residual ==
    /\ s.pc = "add_residual"
    /\ s' = [s EXCEPT !.y = add_residual(inp, s.y),
                      !.log = Append(s.log, Call("add_residual", "", <<inp, s.y>>)),
                      !.pc = "return"]
    /\ UNCHANGED <<n_future, push_forward_mode, training, replace_state, inp, m, vis, op, fw>>

Single_return ==
    /\ s.pc = "return"
    /\ s' = [s EXCEPT !.out = s.y, !.pc = "done"]
    /\ UNCHANGED <<n_future, push_forward_mode, training, replace_state, inp, m, vis, op, fw>>

SingleNext ==
    \/ Single_update_internal_state
    \/ Single_append_unpredicted_features
    \/ Single_history_compute_stats
    \/ Single_history_normalize
    \/ Single_add_static_features
    \/ Single_model
    \/ Single_correct_bias
    \/ Single_history_denormalize
    \/ Single_add_residual
    \/ Single_return

\* ---------------------------------------------------------------------------
\* MultiStepWrapper

MultiInit ==
    [pc |-> "forward", pre |-> <<"initial">>, log |-> <<>>,
     inpt |-> NoTensor, inpa |-> NoTensor, inpan |-> NoTensor, inpans |-> NoTensor,
     predn |-> NoTensor, pred |-> NoTensor, step |-> 0, result |-> <<>>,
     y |-> NoTensor, out |-> NoTensor]

\* forward() that takes the training routine whatever the flag is
UsesTrainRoutine_Always == TRUE

\* forward(): if self.training
UsesTrainRoutine == training

\* _forward_train: if self.push_forward_mode
DetachesInput == push_forward_mode

\* the loop without its break: every step advances the internal state
IsLastStep_NoBreak(step) == FALSE

\* _forward_train: if step == self.n_future: break
IsLastStep(step) == step = n_future

\* _forward_train: for step in range(self.n_future + 1)
InRange(step) == step < n_future + 1

\* _forward_train: the bool passed to update_internal_state before the rollout
TrainResetFlag == TRUE

\* _forward_train: the bool passed to update_internal_state after a step
TrainAdvanceFlag == FALSE

Multi_forward ==
    /\ m.pc = "forward"
    /\ m' = [m EXCEPT !.pc = IF UsesTrainRoutine THEN "train:begin" ELSE "eval:update_internal_state"]
    /\ UNCHANGED <<n_future, push_forward_mode, training, replace_state, inp, s, vis, op, fw>>

\* result = []; inpt = inp
Train_begin ==
    /\ m.pc = "train:begin"
    /\ m' = [m EXCEPT !.result = <<>>,
                      !.inpt = inp,
                      !.pc = "train:update_internal_state"]
    /\ UNCHANGED <<n_future, push_forward_mode, training, replace_state, inp, s, vis, op, fw>>

Train_update_internal_state ==
    /\ m.pc = "train:update_internal_state"
    /\ m' = [m EXCEPT !.pre = update_internal_state(m.pre, TrainResetFlag),
                      !.log = Append(m.log, Call("update_internal_state", PyBool(TrainResetFlag), <<>>)),
                      !.step = 0,
                      !.pc = IF InRange(0) THEN "train:detach" ELSE "train:cat"]
    /\ UNCHANGED <<n_future, push_forward_mode, training, replace_state, inp, s, vis, op, fw>>

\* if self.push_forward_mode: inpt = inpt.detach()
Train_detach ==
    /\ m.pc = "train:detach"
    /\ m' = [m EXCEPT !.inpt = IF DetachesInput THEN Detach(m.inpt) ELSE m.inpt,
                      !.log = IF DetachesInput THEN Append(m.log, Call("detach", "", <<m.inpt>>)) ELSE m.log,
                      !.pc = "train:append_unpredicted_features"]
    /\ UNCHANGED <<n_future, push_forward_mode, training, replace_state, inp, s, vis, op, fw>>

Train_append_unpredicted_features ==
    /\ m.pc = "train:append_unpredicted_features"
    /\ m' = [m EXCEPT !.inpa = append_unpredicted_features(m.inpt),
                      !.log = Append(m.log, Call("append_unpredicted_features", "", <<m.inpt>>)),
                      !.pc = "train:history_compute_stats"]
    /\ UNCHANGED <<n_future, push_forward_mode, training, replace_state, inp, s, vis, op, fw>>

Train_history_compute_stats ==
    /\ m.pc = "train:history_compute_stats"
    /\ m' = [m EXCEPT !.pre = history_compute_stats(m.pre, m.inpa),
                      !.log = Append(m.log, Call("history_compute_stats", "", <<m.inpa>>)),
                      !.pc = "train:history_normalize"]
    /\ UNCHANGED <<n_future, push_forward_mode, training, replace_state, inp, s, vis, op, fw>>

Train_history_normalize ==
    /\ m.pc = "train:history_normalize"
    /\ m' = [m EXCEPT !.inpan = history_normalize(m.inpa, FALSE),
                      !.log = Append(m.log, Call("history_normalize", PyBool(FALSE), <<m.inpa>>)),
                      !.pc = "train:add_static_features"]
    /\ UNCHANGED <<n_future, push_forward_mode, training, replace_state, inp, s, vis, op, fw>>

Train_add_static_features ==
    /\ m.pc = "train:add_static_features"
    /\ m' = [m EXCEPT !.inpans = add_static_features(m.inpan),
                      !.log = Append(m.log, Call("add_static_features", "", <<m.inpan>>)),
                      !.pc = "train:model"]
    /\ UNCHANGED <<n_future, push_forward_mode, training, replace_state, inp, s, vis, op, fw>>

Train_model ==
    /\ m.pc = "train:model"
    /\ m' = [m EXCEPT !.predn = model(m.inpans),
                      !.log = Append(m.log, Call("model", "", <<m.inpans>>)),
                      !.pc = "train:correct_bias"]
    /\ UNCHANGED <<n_future, push_forward_mode, training, replace_state, inp, s, vis, op, fw>>

Train_correct_bias ==
    /\ m.pc = "train:correct_bias"
    /\ m' = [m EXCEPT !.predn = correct_bias(m.predn),
                      !.log = Append(m.log, Call("correct_bias", "", <<m.predn>>)),
                      !.pc = "train:history_denormalize"]
    /\ UNCHANGED <<n_future, push_forward_mode, training, replace_state, inp, s, vis, op, fw>>

Train_history_denormalize ==
    /\ m.pc = "train:history_denormalize"
    /\ m' = [m EXCEPT !.pred = history_denormalize(m.predn, TRUE),
                      !.log = Append(m.log, Call("history_denormalize", PyBool(TRUE), <<m.predn>>)),
                      !.pc = "train:add_residual"]
    /\ UNCHANGED <<n_future, push_forward_mode, training, replace_state, inp, s, vis, op, fw>>

\* the residual added to the augmented input instead of the raw input
Train_add_residual_Augmented ==
    /\ m.pc = "train:add_residual"
    /\ m' = [m EXCEPT !.pred = add_residual(m.inpa, m.pred),
                      !.log = Append(m.log, Call("add_residual", "", <<m.inpa, m.pred>>)),
                      !.pc = "train:append"]
    /\ UNCHANGED <<n_future, push_forward_mode, training, replace_state, inp, s, vis, op, fw>>

\* the state advanced right after the residual, before the prediction is
\* appended to the result
Train_add_residual_ThenAdvance ==
    /\ m.pc = "train:add_residual"
    /\ m' = [m EXCEPT !.pred = add_residual(m.inpt, m.pred),
                      !.log = Append(m.log, Call("add_residual", "", <<m.inpt, m.pred>>)),
                      !.pc = "train:advance"]
    /\ UNCHANGED <<n_future, push_forward_mode, training, replace_state, inp, s, vis, op, fw>>

Train_add_residual ==
    /\ m.pc = "train:add_residual"
    /\ m' = [m EXCEPT !.pred = add_residual(m.inpt, m.pred),
                      !.log = Append(m.log, Call("add_residual", "", <<m.inpt, m.pred>>)),
                      !.pc = "train:append"]
    /\ UNCHANGED <<n_future, push_forward_mode, training, replace_state, inp, s, vis, op, fw>>

\* result.append(pred); if step == self.n_future: break
Train_append ==
    /\ m.pc = "train:append"
    /\ m' = [m EXCEPT !.result = Append(m.result, m.pred),
                      !.pc = IF IsLastStep(m.step) THEN "train:cat" ELSE "train:advance"]
    /\ UNCHANGED <<n_future, push_forward_mode, training, replace_state, inp, s, vis, op, fw>>

\* self.preprocessor.update_internal_state(replace_state=False)
Train_advance ==
    /\ m.pc = "train:advance"
    /\ m' = [m EXCEPT !.pre = update_internal_state(m.pre, TrainAdvanceFlag),
                      !.log = Append(m.log, Call("update_internal_state", PyBool(TrainAdvanceFlag), <<>>)),
                      !.pc = "train:append_history"]
    /\ UNCHANGED <<n_future, push_forward_mode, training, replace_state, inp, s, vis, op, fw>>

\* inpt = append_history(inpt, pred, step), then the next step of the for loop
Train_append_history ==
    /\ m.pc = "train:append_history"
    /\ m' = [m EXCEPT !.inpt = append_history(m.inpt, m.pred, m.step),
                      !.log = Append(m.log, Call("append_history", ToString(m.step), <<m.inpt, m.pred>>)),
                      !.step = IF InRange(m.step + 1) THEN m.step + 1 ELSE m.step,
                      !.pc = IF InRange(m.step + 1) THEN "train:detach" ELSE "train:cat"]
    /\ UNCHANGED <<n_future, push_forward_mode, training, replace_state, inp, s, vis, op, fw>>

\* result = torch.cat(result, dim=1); return result
Train_cat ==
    /\ m.pc = "train:cat"
    /\ m' = [m EXCEPT !.out = TorchCat(m.result),
                      !.pc = "done"]
    /\ UNCHANGED <<n_future, push_forward_mode, training, replace_state, inp, s, vis, op, fw>>

Eval_update_internal_state ==
    /\ m.pc = "eval:update_internal_state"
    /\ m' = [m EXCEPT !.pre = update_internal_state(m.pre, TRUE),
                      !.log = Append(m.log, Call("update_internal_state", PyBool(TRUE), <<>>)),
                      !.pc = "eval:append_unpredicted_features"]
    /\ UNCHANGED <<n_future, push_forward_mode, training, replace_state, inp, s, vis, op, fw>>

Eval_append_unpredicted_features ==
    /\ m.pc = "eval:append_unpredicted_features"
    /\ m' = [m EXCEPT !.inpa = append_unpredicted_features(inp),
                      !.log = Append(m.log, Call("append_unpredicted_features", "", <<inp>>)),
                      !.pc = "eval:history_compute_stats"]
    /\ UNCHANGED <<n_future, push_forward_mode, training, replace_state, inp, s, vis, op, fw>>

Eval_history_compute_stats ==
    /\ m.pc = "eval:history_compute_stats"
    /\ m' = [m EXCEPT !.pre = history_compute_stats(m.pre, m.inpa),
                      !.log = Append(m.log, Call("history_compute_stats", "", <<m.inpa>>)),
                      !.pc = "eval:history_normalize"]
    /\ UNCHANGED <<n_future, push_forward_mode, training, replace_state, inp, s, vis, op, fw>>

Eval_history_normalize ==
    /\ m.pc = "eval:history_normalize"
    /\ m' = [m EXCEPT !.inpan = history_normalize(m.inpa, FALSE),
                      !.log = Append(m.log, Call("history_normalize", PyBool(FALSE), <<m.inpa>>)),
                      !.pc = "eval:add_static_features"]
    /\ UNCHANGED <<n_future, push_forward_mode, training, replace_state, inp, s, vis, op, fw>>

Eval_add_static_features ==
    /\ m.pc = "eval:add_static_features"
    /\ m' = [m EXCEPT !.inpans = add_static_features(m.inpan),
                      !.log = Append(m.log, Call("add_static_features", "", <<m.inpan>>)),
                      !.pc = "eval:model"]
    /\ UNCHANGED <<n_future, push_forward_mode, training, replace_state, inp, s, vis, op, fw>>

Eval_model ==
    /\ m.pc = "eval:model"
    /\ m' = [m EXCEPT !.predn = model(m.inpans),
                      !.log = Append(m.log, Call("model", "", <<m.inpans>>)),
                      !.pc = "eval:correct_bias"]
    /\ UNCHANGED <<n_future, push_forward_mode, training, replace_state, inp, s, vis, op, fw>>

Eval_correct_bias ==
    /\ m.pc = "eval:correct_bias"
    /\ m' = [m EXCEPT !.predn = correct_bias(m.predn),
                      !.log = Append(m.log, Call("correct_bias", "", <<m.predn>>)),
                      !.pc = "eval:history_denormalize"]
    /\ UNCHANGED <<n_future, push_forward_mode, training, replace_state, inp, s, vis, op, fw>>

Eval_history_denormalize ==
    /\ m.pc = "eval:history_denormalize"
    /\ m' = [m EXCEPT !.y = history_denormalize(m.predn, TRUE),
                      !.log = Append(m.log, Call("history_denormalize", PyBool(TRUE), <<m.predn>>)),
                      !.pc = "eval:add_residual"]
    /\ UNCHANGED <<n_future, push_forward_mode, training, replace_state, inp, s, vis, op, fw>>

Eval_add_residual ==
    /\ m.pc = "eval:add_residual"
    /\ m' = [m EXCEPT !.y = add_residual(inp, m.y),
                      !.log = Append(m.log, Call("add_residual", "", <<inp, m.y>>)),
                      !.pc = "eval:return"]
    /\ UNCHANGED <<n_future, push_forward_mode, training, replace_state, inp, s, vis, op, fw>>

Eval_return ==
    /\ m.pc = "eval:return"
    /\ m' = [m EXCEPT !.out = m.y,
                      !.pc = "done"]
    /\ UNCHANGED <<n_future, push_forward_mode, training, replace_state, inp, s, vis, op, fw>>

MultiNext ==
    \/ Multi_forward
    \/ Train_begin
    \/ Train_update_internal_state
    \/ Train_detach
    \/ Train_append_unpredicted_features
    \/ Train_history_compute_stats
    \/ Train_history_normalize
    \/ Train_add_static_features
    \/ Train_model
    \/ Train_correct_bias
    \/ Train_history_denormalize
    \/ Train_add_residual
    \/ Train_append
    \/ Train_advance
    \/ Train_append_history
    \/ Train_cat
    \/ Eval_update_internal_state
    \/ Eval_append_unpredicted_features
    \/ Eval_history_compute_stats
    \/ Eval_history_normalize
    \/ Eval_add_static_features
    \/ Eval_model
    \/ Eval_correct_bias
    \/ Eval_history_denormalize
    \/ Eval_add_residual
    \/ Eval_return

\* ---------------------------------------------------------------------------
\* The step wrappers' specification: one SingleStepWrapper and one
\* MultiStepWrapper are given the same model, equal preprocessors and the same
\* input, and each runs one forward().

VisIdle == [status |-> "unused"]

OpIdle == [status |-> "unused"]

FwIdle == [pc |-> "idle"]

InputTensors == {[ch |-> << <<"inp">> >>, grad |-> g] : g \in BOOLEAN}

Init ==
    /\ n_future \in 0..MaxFuture
    /\ push_forward_mode \in BOOLEAN
    /\ training \in BOOLEAN
    /\ replace_state \in BOOLEAN
    /\ inp \in InputTensors
    /\ s = SingleInit
    /\ m = MultiInit
    /\ vis = VisIdle
    /\ op = OpIdle
    /\ fw = FwIdle

Next == SingleNext \/ MultiNext

Spec == Init /\ [][Next]_vars

\* ---------------------------------------------------------------------------
\* VisualizationWrapper.  Strings are sequences of code points (65 is "A", 95 is
\* "_"), compared as Python compares str.  An image is the term of what
\* visualize_field draws: the item's functor and colour map and the data of the
\* add() call; lat, lon, scale and bias are the same for every job of a wrapper.

MaxJobs == 4

\* Python's str < str
RECURSIVE StrLess(_, _)
StrLess(a, b) ==
    IF a = <<>> THEN b # <<>>
    ELSE IF b = <<>> THEN FALSE
    ELSE IF a[1] # b[1] THEN a[1] < b[1]
    ELSE StrLess(Tail(a), Tail(b))

\* the plot lists a wrapper is built with: ["A"], ["A", "AA"], ["A_", "A"]
PlotItem(name, functor, diverging) ==
    [name |-> name, functor |-> functor, diverging |-> diverging]

PlotLists ==
    { << PlotItem(<<65>>, "f1", FALSE) >>,
      << PlotItem(<<65>>, "f1", FALSE), PlotItem(<<65, 65>>, "f2", TRUE) >>,
      << PlotItem(<<65, 95>>, "f1", FALSE), PlotItem(<<65>>, "f2", FALSE) >> }

\* the tags add() is called with: "A", "_A"
Tags == { <<65>>, <<95, 65>> }

\* the prediction/target pairs add() is called with; on "bad" (arrays that are
\* not 2d after the functor) plot_comparison's asserts fail and the job raises
Data == {"d1", "d2", "bad"}

\* visualize_field raises on the data
JobRaises(data) == data = "bad"

NoOutput ==
    [status |-> "none", jobs |-> <<>>, since |-> <<>>, results |-> <<>>, video |-> <<>>,
     logged |-> FALSE]

VisInit(log_to_wandb, plot_list) ==
    [status |-> "ready", log_to_wandb |-> log_to_wandb, generate_video |-> TRUE,
     plot_list |-> plot_list, requests |-> <<>>,
     \* bookkeeping: the jobs submitted since the last reset() or finalize() call
     added |-> <<>>,
     \* the outcome of the finalize() call that has just ended
     last |-> NoOutput]

\* executor.submit(visualize_field, (tag, field_name), func_string, prediction, target, ...):
\* the future of one job, with the token and the image its result() holds, or
\* the exception it raises
Submit(tag, item, data) ==
    [token |-> <<tag, item.name>>,
     image |-> <<item.functor, data, PyBool(item.diverging)>>,
     raises |-> JobRaises(data)]

\* prefix = field_name + "_" + tag
Prefix(token) == token[2] \o <<95>> \o token[1]

\* add(): one request per item of the plot list, in list order
AddRequests(requests, plot_list, tag, data) ==
    requests \o [i \in 1..Len(plot_list) |-> Submit(tag, plot_list[i], data)]

\* the orders in which cf.as_completed can yield n futures
CompletionOrders(n) ==
    {p \in [1..n -> 1..n] : \A i, j \in 1..n : p[i] = p[j] => i = j}

\* results[prefix] = image, for the first n futures of the order; an entry is
\* kept with the token of its job
RECURSIVE Collect(_, _, _)
Collect(requests, order, n) ==
    IF n = 0 THEN <<>>
    ELSE LET before == Collect(requests, order, n - 1)
             job == requests[order[n]]
             rest == SelectSeq(before, LAMBDA e : e.prefix # Prefix(job.token))
         IN  Append(rest, [prefix |-> Prefix(job.token), token |-> job.token, image |-> job.image])

\* sorted(results.items()): the entries by ascending prefix
RECURSIVE SortedItems(_)
SortedItems(entries) ==
    IF entries = {} THEN <<>>
    ELSE LET first == CHOOSE e \in entries : \A o \in entries \ {e} : StrLess(e.prefix, o.prefix)
         IN  <<first>> \o SortedItems(entries \ {first})

Range(seq) == {seq[i] : i \in 1..Len(seq)}

\* frames in the order in which the results arrived
Frames_Unsorted(results) == results

\* the frames of the video: for prefix, image in sorted(results.items())
Frames(results) == SortedItems(Range(results))

Vis_add ==
    /\ vis.status = "ready"
    /\ Len(vis.requests) + Len(vis.plot_list) <= MaxJobs
    /\ \E tag \in Tags, data \in Data :
           vis' = [vis EXCEPT !.requests = AddRequests(vis.requests, vis.plot_list, tag, data),
                              !.added = AddRequests(vis.added, vis.plot_list, tag, data),
                              !.last = NoOutput]
    /\ UNCHANGED stepperVars
    /\ UNCHANGED <<op, fw>>

Vis_reset ==
    /\ vis.status = "ready"
    /\ vis' = [vis EXCEPT !.requests = <<>>, !.added = <<>>, !.last = NoOutput]
    /\ UNCHANGED stepperVars
    /\ UNCHANGED <<op, fw>>

\* finalize() when request.result() raises for one of the futures: the
\* exception leaves finalize() before anything is emitted or reset
Vis_finalize_job_raises ==
    /\ vis.status = "ready"
    /\ \E k \in 1..Len(vis.requests) : vis.requests[k].raises
    /\ vis' = [vis EXCEPT !.last = [NoOutput EXCEPT !.status = "raised", !.jobs = vis.requests,
                                                   !.since = vis.added],
                          !.added = <<>>]
    /\ UNCHANGED stepperVars
    /\ UNCHANGED <<op, fw>>

\* finalize() when every job has a result
Vis_finalize ==
    /\ vis.status = "ready"
    /\ \A k \in 1..Len(vis.requests) : ~vis.requests[k].raises
    /\ \E order \in CompletionOrders(Len(vis.requests)) :
          LET results == Collect(vis.requests, order, Len(vis.requests))
              video == IF vis.generate_video THEN Frames(results) ELSE <<>>
          IN  IF vis.generate_video /\ video = <<>>
              THEN \* np.stack([]) and ImageSequenceClip([]) raise
                   vis' = [vis EXCEPT !.last = [NoOutput EXCEPT !.status = "raised",
                                                            !.jobs = vis.requests,
                                                            !.since = vis.added],
                                      !.added = <<>>]
              ELSE vis' = [vis EXCEPT
                       !.last = [status |-> "returned", jobs |-> vis.requests,
                                 since |-> vis.added,
                                 results |-> results, video |-> video,
                                 logged |-> vis.log_to_wandb],
                       !.requests = <<>>,
                       !.added = <<>>]
    /\ UNCHANGED stepperVars
    /\ UNCHANGED <<op, fw>>

InitVis ==
    /\ n_future = 0
    /\ push_forward_mode = FALSE
    /\ training = FALSE
    /\ replace_state = TRUE
    /\ inp = NoTensor
    /\ s = [pc |-> "unused"]
    /\ m = [pc |-> "unused"]
    /\ \E w \in BOOLEAN, pl \in PlotLists : vis = VisInit(w, pl)
    /\ op = OpIdle
    /\ fw = FwIdle

NextVis == Vis_add \/ Vis_reset \/ Vis_finalize_job_raises \/ Vis_finalize

SpecVis == InitVis /\ [][NextVis]_vars

\* ---------------------------------------------------------------------------
\* SpectralConv and SpectralAttention.  A transform is a record of the
\* attributes the constructors read: lmax, mmax, nlat, nlon, grid ("none" when
\* the transform has no grid attribute, as RealFFT2), and for the inverse
\* transform whether it is a DistributedInverseRealSHT, with its per-rank
\* l_shapes and m_shapes.  A spectral tensor value is a term, as above, with
\* its dtype.

MaxChannels == 3

MaxGroups == 2

HasGrid(t) == t.grid # "none"

BaseTransform == [lmax |-> 3, mmax |-> 3, nlat |-> 4, nlon |-> 8, grid |-> "equiangular"]

ForwardTransforms == {BaseTransform, [BaseTransform EXCEPT !.grid = "none"]}

\* the inverse transforms tried with a forward transform: the matching one and
\* those that differ from it in one attribute
InverseVariants(f) ==
    {f,
     [f EXCEPT !.lmax = 2], [f EXCEPT !.mmax = 2],
     [f EXCEPT !.nlat = 6], [f EXCEPT !.nlon = 12],
     [f EXCEPT !.grid = "legendre-gauss"], [f EXCEPT !.grid = "none"]}

\* the shares of n modes on a process grid axis of two ranks
SplitShapes(n) == <<(n + 1) \div 2, n \div 2>>

InverseTransforms(f) ==
    {[lmax |-> v.lmax, mmax |-> v.mmax, nlat |-> v.nlat, nlon |-> v.nlon, grid |-> v.grid,
      distributed |-> d,
      l_shapes |-> SplitShapes(v.lmax), m_shapes |-> SplitShapes(v.mmax),
      lat_shapes |-> SplitShapes(v.nlat), lon_shapes |-> SplitShapes(v.nlon)] :
        v \in InverseVariants(f), d \in BOOLEAN}

\* a DistributedInverseRealSHT has a grid
IsTransform(i) == i.distributed => HasGrid(i)

OperatorTypes == {"diagonal", "dhconv", "l-dependant", "bogus"}

\* the values torch.randn can give a weight
Weights == {"w1", "w2"}

\* comm.get_rank("h"), comm.get_rank("w")
Ranks == {<<0, 0>>, <<1, 0>>}

NoAttrs ==
    [scale_residual |-> FALSE, modes_lat |-> 0, modes_lon |-> 0,
     modes_lat_local |-> 0, modes_lon_local |-> 0,
     weight_shape |-> <<>>, w_shapes |-> <<>>, wout_shape |-> <<>>,
     weight |-> "none", has_bias |-> FALSE]

\* the object before its constructor has run
NewOperator(cls, f, i, cin, cout, g, t, sep, bias, rank) ==
    [status |-> "new", cls |-> cls,
     forward_transform |-> f, inverse_transform |-> i,
     in_channels |-> cin, out_channels |-> cout, num_groups |-> g,
     operator_type |-> t, separable |-> sep, bias |-> bias, rank |-> rank,
     attrs |-> NoAttrs]

\* an exception leaves the constructor: no object, no weight
Raises(o, exception) == [o EXCEPT !.status = exception, !.attrs = NoAttrs]

\* the divisibility of in_channels alone
ChannelsDivisible_InOnly(cin, cout, g) == cin % g = 0

\* SpectralConv.__init__: assert in_channels % num_groups == 0; assert out_channels % num_groups == 0
ChannelsDivisible(cin, cout, g) == cin % g = 0 /\ cout % g = 0

\* SpectralConv.__init__: scale_residual, before the grid is looked at
ResolutionDiffers(f, i) == f.nlat # i.nlat \/ f.nlon # i.nlon

\* SpectralConv.__init__: the grid is compared when the forward transform has one,
\* and (by the short circuit of "or") the resolutions agree
ConvReadsGrids(f, i) == HasGrid(f) /\ ~ResolutionDiffers(f, i)

\* the residual decided by the resolutions alone
ConvScaleResidual_ResolutionOnly(f, i) == ResolutionDiffers(f, i)

ConvScaleResidual(f, i) ==
    ResolutionDiffers(f, i) \/ (HasGrid(f) /\ f.grid # i.grid)

\* SpectralConv.__init__: assert inverse_transform.lmax == modes_lat;
\* assert inverse_transform.mmax == modes_lon, with modes_lat, modes_lon read
\* from the inverse transform
ConvModesAsserted(f, i) ==
    LET modes_lat == i.lmax
        modes_lon == i.mmax
    IN  i.lmax = modes_lat /\ i.mmax = modes_lon

ConvRecognized(t) == t \in {"diagonal", "dhconv"}

ConvLocalModes(i, rank) ==
    IF i.distributed
    THEN <<i.l_shapes[rank[1] + 1], i.m_shapes[rank[2] + 1]>>
    ELSE <<i.lmax, i.mmax>>

ConvWeightShape(o, local) ==
    <<o.num_groups, o.in_channels \div o.num_groups>>
    \o (IF ~o.separable THEN <<o.out_channels \div o.num_groups>> ELSE <<>>)
    \o (IF o.operator_type = "diagonal" THEN <<local[1], local[2]>> ELSE <<local[1]>>)

\* SpectralConv.__init__
ConvInit(o, w) ==
    LET f == o.forward_transform
        i == o.inverse_transform
    IN  IF ~ChannelsDivisible(o.in_channels, o.out_channels, o.num_groups)
        THEN Raises(o, "AssertionError")
        ELSE IF ConvReadsGrids(f, i) /\ ~HasGrid(i)
        THEN Raises(o, "AttributeError")
        ELSE IF ~ConvModesAsserted(f, i)
        THEN Raises(o, "AssertionError")
        ELSE IF ~ConvRecognized(o.operator_type)
        THEN Raises(o, "ValueError")
        ELSE LET local == ConvLocalModes(i, o.rank)
             IN  [o EXCEPT !.status = "constructed",
                           !.attrs = [scale_residual |-> ConvScaleResidual(f, i),
                                      modes_lat |-> i.lmax, modes_lon |-> i.mmax,
                                      modes_lat_local |-> local[1],
                                      modes_lon_local |-> local[2],
                                      weight_shape |-> ConvWeightShape(o, local),
                                      w_shapes |-> <<>>, wout_shape |-> <<>>,
                                      weight |-> w, has_bias |-> o.bias]]

\* SpectralAttention.__init__: "a or b or c" reads the grids when the resolutions agree
AttnReadsGrids(f, i) == ~ResolutionDiffers(f, i)

AttnScaleResidual(f, i) == ResolutionDiffers(f, i) \/ f.grid # i.grid

\* SpectralAttention.__init__: assert inverse_transform.lmax == modes_lat;
\* assert inverse_transform.mmax == modes_lon, with modes_lat, modes_lon read
\* from the forward transform
AttnModesAsserted(f, i) ==
    LET modes_lat == f.lmax
        modes_lon == f.mmax
    IN  i.lmax = modes_lat /\ i.mmax = modes_lon

\* a constructor whose last branch takes every other operator_type
AttnRecognized_Any(t) == TRUE

AttnRecognized(t) == t \in {"diagonal", "l-dependant"}

\* hidden_size = int(hidden_size_factor * in_channels), hidden_size_factor = 2
HiddenSize(cin) == 2 * cin

\* the shapes of w[0] (spectral_layers = 1) and of wout
AttnWShapes(o) ==
    IF o.operator_type = "diagonal"
    THEN << <<o.in_channels, HiddenSize(o.in_channels)>> >>
    ELSE << <<o.forward_transform.lmax, o.in_channels, HiddenSize(o.in_channels)>> >>

AttnWoutShape(o) ==
    IF o.operator_type = "diagonal"
    THEN <<HiddenSize(o.in_channels), o.out_channels>>
    ELSE <<o.forward_transform.lmax, HiddenSize(o.in_channels), o.out_channels>>

\* SpectralAttention.__init__
AttnInit(o, w) ==
    LET f == o.forward_transform
        i == o.inverse_transform
    IN  IF AttnReadsGrids(f, i) /\ (~HasGrid(f) \/ ~HasGrid(i))
        THEN Raises(o, "AttributeError")
        ELSE IF ~AttnModesAsserted(f, i)
        THEN Raises(o, "AssertionError")
        ELSE IF ~AttnRecognized(o.operator_type)
        THEN Raises(o, "ValueError")
        ELSE [o EXCEPT !.status = "constructed",
                       !.attrs = [scale_residual |-> AttnScaleResidual(f, i),
                                  modes_lat |-> f.lmax, modes_lon |-> f.mmax,
                                  modes_lat_local |-> f.lmax, modes_lon_local |-> f.mmax,
                                  weight_shape |-> <<>>,
                                  w_shapes |-> AttnWShapes(o), wout_shape |-> AttnWoutShape(o),
                                  weight |-> w, has_bias |-> o.bias]]

SpectralConv_init ==
    /\ op.status = "new"
    /\ op.cls = "SpectralConv"
    /\ \E w \in Weights : op' = ConvInit(op, w)
    /\ UNCHANGED fw
    /\ UNCHANGED stepperVars
    /\ UNCHANGED vis

SpectralAttention_init ==
    /\ op.status = "new"
    /\ op.cls = "SpectralAttention"
    /\ \E w \in Weights : op' = AttnInit(op, w)
    /\ UNCHANGED fw
    /\ UNCHANGED stepperVars
    /\ UNCHANGED vis

\* ---- tensors of the operators

SpectralInputs == {[val |-> <<"x">>, dtype |-> d] : d \in {"float32", "float16"}}

\* x.to(dtype): the tensor itself when it has the dtype already
To(x, dtype) ==
    IF x.dtype = dtype THEN x ELSE [val |-> <<"to", dtype>> \o x.val, dtype |-> dtype]

\* x.float()
Float(x) == To(x, "float32")

ForwardTransform(x) == [val |-> <<"forward_transform">> \o x.val, dtype |-> "complex64"]

InverseTransform(x) == [val |-> <<"inverse_transform">> \o x.val, dtype |-> "float32"]

\* self._contract(x, self.weight, ...) between the two reshapes
Contract(x, weight) == [val |-> <<"contract", weight>> \o x.val, dtype |-> x.dtype]

\* self.forward_mlp(x)
ForwardMlp(x, weight) == [val |-> <<"forward_mlp", weight>> \o x.val, dtype |-> x.dtype]

\* x + self.bias
AddBias(x) == [val |-> <<"add_bias">> \o x.val, dtype |-> x.dtype]

\* ---- amp.autocast(device_type="cuda", enabled=False) as a context manager:
\* __enter__ remembers the mode in force and sets the given one, __exit__
\* (normal or by an exception) sets the remembered one again

AutocastEnter(mode, enabled) == [saved |-> mode, mode |-> enabled]

\* an exit that leaves the mode the with block has set
AutocastExit_KeepsMode(saved, mode) == mode

AutocastExit(saved, mode) == saved

\* one call of a transform, with the autocast state it ran under
TransformCall(fn, f) ==
    [fn |-> fn, scoped |-> f.saved # <<>>, mode |-> f.mode]

FwStart(x, ambient) ==
    [pc |-> "float", ambient |-> ambient, mode |-> ambient, saved |-> <<>>,
     input |-> x, dtype |-> x.dtype, x |-> x, residual |-> x,
     calls |-> <<>>, exc |-> FALSE, out |-> <<>>]


\* SpectralConv.forward(x): dtype = x.dtype; residual = x
Conv_forward ==
    /\ op.status = "constructed"
    /\ op.cls = "SpectralConv"
    /\ fw.pc \in {"idle", "returned", "raised"}
    /\ \E x \in SpectralInputs, ambient \in BOOLEAN : fw' = FwStart(x, ambient)
    /\ UNCHANGED op
    /\ UNCHANGED stepperVars
    /\ UNCHANGED vis

\* x = x.float()
Conv_float ==
    /\ op.status = "constructed"
    /\ op.cls = "SpectralConv"
    /\ fw.pc = "float"
    /\ fw' = [fw EXCEPT !.x = Float(fw.x), !.pc = "enter1"]
    /\ UNCHANGED op
    /\ UNCHANGED stepperVars
    /\ UNCHANGED vis

\* with amp.autocast(device_type="cuda", enabled=False):
Conv_enter1 ==
    /\ op.status = "constructed"
    /\ op.cls = "SpectralConv"
    /\ fw.pc = "enter1"
    /\ fw' = [fw EXCEPT !.saved = <<AutocastEnter(fw.mode, FALSE).saved>> \o fw.saved,
                        !.mode = AutocastEnter(fw.mode, FALSE).mode,
                        !.pc = "forward_transform"]
    /\ UNCHANGED op
    /\ UNCHANGED stepperVars
    /\ UNCHANGED vis

\* x = self.forward_transform(x), which returns or raises
Conv_forward_transform ==
    /\ op.status = "constructed"
    /\ op.cls = "SpectralConv"
    /\ fw.pc = "forward_transform"
    /\ \/ fw' = [fw EXCEPT !.x = ForwardTransform(fw.x),
                           !.calls = Append(fw.calls, TransformCall("forward_transform", fw)),
                           !.pc = IF op.attrs.scale_residual THEN "residual" ELSE "exit1"]
       \/ fw' = [fw EXCEPT !.calls = Append(fw.calls, TransformCall("forward_transform", fw)),
                           !.exc = TRUE, !.pc = "exit1"]
    /\ UNCHANGED op
    /\ UNCHANGED stepperVars
    /\ UNCHANGED vis

\* residual = self.inverse_transform(x); residual = residual.to(dtype)
Conv_residual ==
    /\ op.status = "constructed"
    /\ op.cls = "SpectralConv"
    /\ fw.pc = "residual"
    /\ \/ fw' = [fw EXCEPT !.residual = To(InverseTransform(fw.x), fw.dtype),
                           !.calls = Append(fw.calls, TransformCall("inverse_transform", fw)),
                           !.pc = "exit1"]
       \/ fw' = [fw EXCEPT !.calls = Append(fw.calls, TransformCall("inverse_transform", fw)),
                           !.exc = TRUE, !.pc = "exit1"]
    /\ UNCHANGED op
    /\ UNCHANGED stepperVars
    /\ UNCHANGED vis

\* the end of the first with block, left normally or by the exception
Conv_exit1 ==
    /\ op.status = "constructed"
    /\ op.cls = "SpectralConv"
    /\ fw.pc = "exit1"
    /\ fw' = [fw EXCEPT !.mode = AutocastExit(Head(fw.saved), fw.mode),
                        !.saved = Tail(fw.saved),
                        !.pc = IF fw.exc THEN "raised" ELSE "contract"]
    /\ UNCHANGED op
    /\ UNCHANGED stepperVars
    /\ UNCHANGED vis

\* the mixing of the modes, outside the with blocks; it returns or raises
Conv_contract ==
    /\ op.status = "constructed"
    /\ op.cls = "SpectralConv"
    /\ fw.pc = "contract"
    /\ \/ fw' = [fw EXCEPT !.x = Contract(fw.x, op.attrs.weight), !.pc = "enter2"]
       \/ fw' = [fw EXCEPT !.exc = TRUE, !.pc = "raised"]
    /\ UNCHANGED op
    /\ UNCHANGED stepperVars
    /\ UNCHANGED vis

\* with amp.autocast(device_type="cuda", enabled=False):
Conv_enter2 ==
    /\ op.status = "constructed"
    /\ op.cls = "SpectralConv"
    /\ fw.pc = "enter2"
    /\ fw' = [fw EXCEPT !.saved = <<AutocastEnter(fw.mode, FALSE).saved>> \o fw.saved,
                        !.mode = AutocastEnter(fw.mode, FALSE).mode,
                        !.pc = "inverse_transform"]
    /\ UNCHANGED op
    /\ UNCHANGED stepperVars
    /\ UNCHANGED vis

\* x = self.inverse_transform(x), which returns or raises
Conv_inverse_transform ==
    /\ op.status = "constructed"
    /\ op.cls = "SpectralConv"
    /\ fw.pc = "inverse_transform"
    /\ \/ fw' = [fw EXCEPT !.x = InverseTransform(fw.x),
                           !.calls = Append(fw.calls, TransformCall("inverse_transform", fw)),
                           !.pc = "exit2"]
       \/ fw' = [fw EXCEPT !.calls = Append(fw.calls, TransformCall("inverse_transform", fw)),
                           !.exc = TRUE, !.pc = "exit2"]
    /\ UNCHANGED op
    /\ UNCHANGED stepperVars
    /\ UNCHANGED vis

\* the end of the second with block
Conv_exit2 ==
    /\ op.status = "constructed"
    /\ op.cls = "SpectralConv"
    /\ fw.pc = "exit2"
    /\ fw' = [fw EXCEPT !.mode = AutocastExit(Head(fw.saved), fw.mode),
                        !.saved = Tail(fw.saved),
                        !.pc = IF fw.exc THEN "raised" ELSE "return"]
    /\ UNCHANGED op
    /\ UNCHANGED stepperVars
    /\ UNCHANGED vis

\* if hasattr(self, "bias"): x = x + self.bias; x = x.to(dtype=dtype); return x, residual
Conv_return ==
    /\ op.status = "constructed"
    /\ op.cls = "SpectralConv"
    /\ fw.pc = "return"
    /\ fw' = [fw EXCEPT !.x = To(IF op.attrs.has_bias THEN AddBias(fw.x) ELSE fw.x, fw.dtype),
                        !.out = <<To(IF op.attrs.has_bias THEN AddBias(fw.x) ELSE fw.x, fw.dtype), fw.residual>>,
                        !.pc = "returned"]
    /\ UNCHANGED op
    /\ UNCHANGED stepperVars
    /\ UNCHANGED vis

\* SpectralAttention.forward(x): dtype = x.dtype; residual = x
Attn_forward ==
    /\ op.status = "constructed"
    /\ op.cls = "SpectralAttention"
    /\ fw.pc \in {"idle", "returned", "raised"}
    /\ \E x \in SpectralInputs, ambient \in BOOLEAN : fw' = FwStart(x, ambient)
    /\ UNCHANGED op
    /\ UNCHANGED stepperVars
    /\ UNCHANGED vis

\* x = x.to(torch.float32)
Attn_float ==
    /\ op.status = "constructed"
    /\ op.cls = "SpectralAttention"
    /\ fw.pc = "float"
    /\ fw' = [fw EXCEPT !.x = Float(fw.x), !.pc = "enter1"]
    /\ UNCHANGED op
    /\ UNCHANGED stepperVars
    /\ UNCHANGED vis

\* with amp.autocast(device_type="cuda", enabled=False):
Attn_enter1 ==
    /\ op.status = "constructed"
    /\ op.cls = "SpectralAttention"
    /\ fw.pc = "enter1"
    /\ fw' = [fw EXCEPT !.saved = <<AutocastEnter(fw.mode, FALSE).saved>> \o fw.saved,
                        !.mode = AutocastEnter(fw.mode, FALSE).mode,
                        !.pc = "forward_transform"]
    /\ UNCHANGED op
    /\ UNCHANGED stepperVars
    /\ UNCHANGED vis

\* x = self.forward_transform(x), which returns or raises
Attn_forward_transform ==
    /\ op.status = "constructed"
    /\ op.cls = "SpectralAttention"
    /\ fw.pc = "forward_transform"
    /\ \/ fw' = [fw EXCEPT !.x = ForwardTransform(fw.x),
                           !.calls = Append(fw.calls, TransformCall("forward_transform", fw)),
                           !.pc = IF op.attrs.scale_residual THEN "residual" ELSE "exit1"]
       \/ fw' = [fw EXCEPT !.calls = Append(fw.calls, TransformCall("forward_transform", fw)),
                           !.exc = TRUE, !.pc = "exit1"]
    /\ UNCHANGED op
    /\ UNCHANGED stepperVars
    /\ UNCHANGED vis

\* residual = self.inverse_transform(x); residual = residual.to(dtype)
Attn_residual ==
    /\ op.status = "constructed"
    /\ op.cls = "SpectralAttention"
    /\ fw.pc = "residual"
    /\ \/ fw' = [fw EXCEPT !.residual = To(InverseTransform(fw.x), fw.dtype),
                           !.calls = Append(fw.calls, TransformCall("inverse_transform", fw)),
                           !.pc = "exit1"]
       \/ fw' = [fw EXCEPT !.calls = Append(fw.calls, TransformCall("inverse_transform", fw)),
                           !.exc = TRUE, !.pc = "exit1"]
    /\ UNCHANGED op
    /\ UNCHANGED stepperVars
    /\ UNCHANGED vis

\* the end of the first with block, left normally or by the exception
Attn_exit1 ==
    /\ op.status = "constructed"
    /\ op.cls = "SpectralAttention"
    /\ fw.pc = "exit1"
    /\ fw' = [fw EXCEPT !.mode = AutocastExit(Head(fw.saved), fw.mode),
                        !.saved = Tail(fw.saved),
                        !.pc = IF fw.exc THEN "raised" ELSE "contract"]
    /\ UNCHANGED op
    /\ UNCHANGED stepperVars
    /\ UNCHANGED vis

\* the mixing of the modes, outside the with blocks; it returns or raises
Attn_contract ==
    /\ op.status = "constructed"
    /\ op.cls = "SpectralAttention"
    /\ fw.pc = "contract"
    /\ \/ fw' = [fw EXCEPT !.x = ForwardMlp(fw.x, op.attrs.weight), !.pc = "enter2"]
       \/ fw' = [fw EXCEPT !.exc = TRUE, !.pc = "raised"]
    /\ UNCHANGED op
    /\ UNCHANGED stepperVars
    /\ UNCHANGED vis

\* with amp.autocast(device_type="cuda", enabled=False):
Attn_enter2 ==
    /\ op.status = "constructed"
    /\ op.cls = "SpectralAttention"
    /\ fw.pc = "enter2"
    /\ fw' = [fw EXCEPT !.saved = <<AutocastEnter(fw.mode, FALSE).saved>> \o fw.saved,
                        !.mode = AutocastEnter(fw.mode, FALSE).mode,
                        !.pc = "inverse_transform"]
    /\ UNCHANGED op
    /\ UNCHANGED stepperVars
    /\ UNCHANGED vis

\* x = self.inverse_transform(x), which returns or raises
Attn_inverse_transform ==
    /\ op.status = "constructed"
    /\ op.cls = "SpectralAttention"
    /\ fw.pc = "inverse_transform"
    /\ \/ fw' = [fw EXCEPT !.x = InverseTransform(fw.x),
                           !.calls = Append(fw.calls, TransformCall("inverse_transform", fw)),
                           !.pc = "exit2"]
       \/ fw' = [fw EXCEPT !.calls = Append(fw.calls, TransformCall("inverse_transform", fw)),
                           !.exc = TRUE, !.pc = "exit2"]
    /\ UNCHANGED op
    /\ UNCHANGED stepperVars
    /\ UNCHANGED vis

\* the end of the second with block
Attn_exit2 ==
    /\ op.status = "constructed"
    /\ op.cls = "SpectralAttention"
    /\ fw.pc = "exit2"
    /\ fw' = [fw EXCEPT !.mode = AutocastExit(Head(fw.saved), fw.mode),
                        !.saved = Tail(fw.saved),
                        !.pc = IF fw.exc THEN "raised" ELSE "return"]
    /\ UNCHANGED op
    /\ UNCHANGED stepperVars
    /\ UNCHANGED vis

\* x = x.to(dtype); return x, residual
Attn_return ==
    /\ op.status = "constructed"
    /\ op.cls = "SpectralAttention"
    /\ fw.pc = "return"
    /\ fw' = [fw EXCEPT !.x = To(fw.x, fw.dtype),
                        !.out = <<To(fw.x, fw.dtype), fw.residual>>,
                        !.pc = "returned"]
    /\ UNCHANGED op
    /\ UNCHANGED stepperVars
    /\ UNCHANGED vis

InitSpectral ==
    /\ n_future = 0
    /\ push_forward_mode = FALSE
    /\ training = FALSE
    /\ replace_state = TRUE
    /\ inp = NoTensor
    /\ s = [pc |-> "unused"]
    /\ m = [pc |-> "unused"]
    /\ vis = VisIdle
    /\ \E cls \in {"SpectralConv", "SpectralAttention"},
          f \in ForwardTransforms,
          cin \in 1..MaxChannels, cout \in 1..MaxChannels, g \in 1..MaxGroups,
          t \in OperatorTypes, sep \in BOOLEAN, bias \in BOOLEAN, rank \in Ranks :
          \E i \in {j \in InverseTransforms(f) : IsTransform(j)} :
              \* SpectralAttention takes no num_groups and no separable
              /\ cls = "SpectralAttention" => g = 1 /\ ~sep
              /\ op = NewOperator(cls, f, i, cin, cout, g, t, sep, bias, rank)
    /\ fw = FwIdle

NextSpectral ==
    \/ SpectralConv_init
    \/ SpectralAttention_init
    \/ Conv_forward
    \/ Conv_float
    \/ Conv_enter1
    \/ Conv_forward_transform
    \/ Conv_residual
    \/ Conv_exit1
    \/ Conv_contract
    \/ Conv_enter2
    \/ Conv_inverse_transform
    \/ Conv_exit2
    \/ Conv_return
    \/ Attn_forward
    \/ Attn_float
    \/ Attn_enter1
    \/ Attn_forward_transform
    \/ Attn_residual
    \/ Attn_exit1
    \/ Attn_contract
    \/ Attn_enter2
    \/ Attn_inverse_transform
    \/ Attn_exit2
    \/ Attn_return

SpecSpectral == InitSpectral /\ [][NextSpectral]_vars

\* ---------------------------------------------------------------------------
\* What the claims speak about

\* the calls of a log to one function
CallsTo(log, fn) == SelectSeq(log, LAMBDA e : e.fn = fn)

\* a log entry with the values of its arguments only
ValuesOf(e) == [fn |-> e.fn, flag |-> e.flag, args |-> [i \in 1..Len(e.args) |-> e.args[i].ch]]

\* the preprocessor and model calls of a log, with the values of their arguments
PreprocessorAndModelCalls(log) ==
    LET calls == SelectSeq(log, LAMBDA e : e.fn # "detach")
    IN  [i \in 1..Len(calls) |-> ValuesOf(calls[i])]

TrainDone == training /\ m.pc = "done"

\* C1: in a training-mode forward() of MultiStepWrapper the first preprocessor
\* call is update_internal_state(replace_state=True), it is the only call with
\* replace_state=True, and when forward() has returned exactly n_future calls
\* update_internal_state(replace_state=False) have followed it.
C1_OneResetThenNFutureAdvances ==
    training =>
        LET calls == PreprocessorAndModelCalls(m.log)
            u == CallsTo(m.log, "update_internal_state")
        IN  /\ calls # <<>> => calls[1] = ValuesOf(Call("update_internal_state", "True", <<>>))
            /\ \A i \in 1..Len(u) : (u[i].flag = "True") <=> (i = 1)
            /\ Len(u) <= n_future + 1
            /\ m.pc = "done" => Len(u) = n_future + 1

C1_Witness ==
    /\ TrainDone
    /\ n_future = 2
    /\ Len(CallsTo(m.log, "update_internal_state")) = 3

\* C2: with n_future = 0 a training-mode MultiStepWrapper.forward makes the
\* same preprocessor and model calls, in the same order and with the same
\* argument values, as SingleStepWrapper.forward with replace_state=True, leaves
\* the preprocessor in the same state and returns the same values, with
\* push-forward mode on or off.
C2_ZeroFutureEqualsSingleStep ==
    (TrainDone /\ n_future = 0 /\ replace_state /\ s.pc = "done") =>
        /\ PreprocessorAndModelCalls(m.log) = PreprocessorAndModelCalls(s.log)
        /\ m.pre = s.pre
        /\ m.out.ch = s.out.ch

C2_Witness ==
    /\ TrainDone /\ n_future = 0 /\ replace_state /\ s.pc = "done"
    /\ push_forward_mode
    /\ Len(CallsTo(m.log, "detach")) = 1
    /\ Len(s.log) = 9

\* C3: a tensor is detached only by a training-mode forward() with
\* push_forward_mode enabled; with the training flag false no detach happens,
\* whatever push_forward_mode and n_future are.
C3_DetachOnlyInPushForwardTraining ==
    /\ ~training => CallsTo(m.log, "detach") = <<>>
    /\ CallsTo(m.log, "detach") # <<>> => training /\ push_forward_mode

C3_Witness ==
    /\ ~training /\ push_forward_mode /\ n_future = 2
    /\ m.pc = "done"
    /\ Len(CallsTo(m.log, "model")) = 1

\* C5: a training-mode forward() calls the model n_future + 1 times and
\* returns n_future + 1 channel blocks, the i-th being the prediction of step
\* i - 1 (the result of the i-th add_residual call), no prediction twice.
C5_TrajectoryOfAllSteps ==
    TrainDone =>
        LET r == CallsTo(m.log, "add_residual")
        IN  /\ Len(CallsTo(m.log, "model")) = n_future + 1
            /\ Len(r) = n_future + 1
            /\ Len(m.out.ch) = n_future + 1
            /\ \A i \in 1..Len(r) :
                   m.out.ch[i] = Term(add_residual(r[i].args[1], r[i].args[2]))
            /\ \A i, j \in 1..Len(m.out.ch) : m.out.ch[i] = m.out.ch[j] => i = j

C5_Witness ==
    /\ TrainDone
    /\ n_future = 2
    /\ Len(m.out.ch) = 3
    /\ m.out.ch[1] # m.out.ch[3]

\* the token (field_name, tag) of a frame, as the pair the claim sorts by
KeyLess(e, f) ==
    \/ StrLess(e.token[2], f.token[2])
    \/ e.token[2] = f.token[2] /\ StrLess(e.token[1], f.token[1])

Returned == vis.status = "ready" /\ vis.last.status = "returned"

DistinctPrefixes(jobs) ==
    \A i, j \in 1..Len(jobs) : Prefix(jobs[i].token) = Prefix(jobs[j].token) => i = j

\* the frames finalize() emits for the jobs when they complete in the order given
VideoOf(jobs, order) == Frames(Collect(jobs, order, Len(jobs)))

\* C4 as stated: after finalize() of k jobs the result set has k entries, one
\* per (field_name, tag), the frames are in the order of (field_name, tag), and
\* every completion order gives the same frames.
C4_Original ==
    Returned =>
        /\ Len(vis.last.results) = Len(vis.last.jobs)
        /\ \A i, j \in 1..Len(vis.last.video) :
               i < j => KeyLess(vis.last.video[i], vis.last.video[j])
        /\ \A order \in CompletionOrders(Len(vis.last.jobs)) :
               VideoOf(vis.last.jobs, order) = vis.last.video

\* C4 (amended): the result set of finalize() has one entry per distinct string
\* field_name + "_" + tag among the k jobs, hence k entries when these strings
\* are pairwise distinct; the frames are the entries by ascending string; and
\* with pairwise distinct strings every completion order gives the same frames,
\* one per job.
C4_KeyedAndOrderedByPrefix ==
    Returned =>
        LET jobs == vis.last.jobs
            video == vis.last.video
        IN  /\ Len(vis.last.results) = Cardinality({Prefix(jobs[i].token) : i \in 1..Len(jobs)})
            /\ Len(video) = Len(vis.last.results)
            /\ Range(video) = Range(vis.last.results)
            /\ \A i, j \in 1..Len(video) : i < j => StrLess(video[i].prefix, video[j].prefix)
            /\ DistinctPrefixes(jobs) =>
                   /\ Len(vis.last.results) = Len(jobs)
                   /\ \A i \in 1..Len(jobs) : \E f \in 1..Len(video) :
                          /\ video[f].token = jobs[i].token
                          /\ video[f].image = jobs[i].image
                   /\ \A order \in CompletionOrders(Len(jobs)) : VideoOf(jobs, order) = video

C4_Witness ==
    /\ Returned
    /\ Len(vis.last.jobs) = 4
    /\ DistinctPrefixes(vis.last.jobs)
    /\ Len(vis.last.video) = 4
    /\ vis.last.video[1].token # vis.last.jobs[1].token

\* ---- SpectralConv, SpectralAttention

Exceptions == {"AssertionError", "AttributeError", "ValueError"}

\* C6: a SpectralConv whose in_channels or out_channels is not a multiple of
\* num_groups is never constructed, whatever its operator_type: the constructor
\* raises with no weight created, and no forward() runs on the object.
C6_IndivisibleChannelsFailConstruction ==
    (/\ op.cls = "SpectralConv"
     /\ op.status # "new"
     /\ \/ op.in_channels % op.num_groups # 0
        \/ op.out_channels % op.num_groups # 0) =>
        /\ op.status = "AssertionError"
        /\ op.attrs.weight = "none"
        /\ op.attrs.weight_shape = <<>>
        /\ fw = FwIdle

C6_Witness ==
    /\ op.cls = "SpectralConv"
    /\ op.operator_type = "dhconv"
    /\ op.in_channels = 2 /\ op.out_channels = 3 /\ op.num_groups = 2
    /\ op.status = "AssertionError"

C8_UnrecognizedOperatorTypeRaises ==
    LET recognized ==
            IF op.cls = "SpectralConv"
            THEN op.operator_type \in {"diagonal", "dhconv"}
            ELSE op.operator_type \in {"diagonal", "l-dependant"}
    IN  /\ (op.status # "new" /\ ~recognized) => (op.status \in Exceptions /\ fw = FwIdle)
        /\ fw # FwIdle => recognized

C8_Witness ==
    /\ op.cls = "SpectralAttention"
    /\ op.operator_type = "dhconv"
    /\ op.status = "ValueError"

ForwardEnded == fw.pc \in {"returned", "raised"}

\* C9: in forward() of both operators every transform call runs inside a with
\* block of autocast(enabled=False), under the disabled mode, and when forward()
\* has ended, by return or by an exception of a transform or of the mixing, the
\* autocast mode is the one in force when forward() began and no with block is
\* left open.
C9_TransformsScopedAndModeRestored ==
    fw # FwIdle =>
        /\ \A k \in 1..Len(fw.calls) : fw.calls[k].scoped /\ fw.calls[k].mode = FALSE
        /\ fw.saved = <<>> => fw.mode = fw.ambient
        /\ ForwardEnded => fw.saved = <<>> /\ fw.mode = fw.ambient

C9_Witness ==
    /\ fw.pc = "raised"
    /\ fw.ambient
    /\ fw.mode
    /\ Len(fw.calls) = 2
    /\ fw.calls[2].fn = "inverse_transform"
    /\ fw.residual = fw.input

\* C10: the residual SpectralConv.forward returns is its input, unmodified, when
\* the two transforms have the same nlat, the same nlon and, if the forward
\* transform has a grid, the same grid; otherwise it is the inverse transform of
\* the forward transform of the input (as float32), cast to the input's dtype.
\* Neither the weight nor the bias occurs in it.
C10_ResidualIsInputOrLowPass ==
    (op.cls = "SpectralConv" /\ fw.pc = "returned") =>
        LET f == op.forward_transform
            i == op.inverse_transform
            same == /\ f.nlat = i.nlat
                    /\ f.nlon = i.nlon
                    /\ f.grid # "none" => f.grid = i.grid
        IN  /\ fw.out[2] =
                   IF same THEN fw.input
                   ELSE To(InverseTransform(ForwardTransform(To(fw.input, "float32"))),
                           fw.input.dtype)
            /\ \A k \in 1..Len(fw.out[2].val) :
                   fw.out[2].val[k] \notin Weights \cup {"add_bias", "contract"}

C10_Witness ==
    /\ op.cls = "SpectralConv" /\ fw.pc = "returned"
    /\ op.forward_transform.nlat = op.inverse_transform.nlat
    /\ op.forward_transform.nlon = op.inverse_transform.nlon
    /\ op.forward_transform.grid = "equiangular"
    /\ op.inverse_transform.grid = "legendre-gauss"
    /\ op.attrs.has_bias
    /\ fw.input.dtype = "float16"
    /\ fw.out[2] # fw.input
    /\ fw.out[2].dtype = "float16"

\* ---- the order of the calls within a step of the rollout

\* the calls of one step of the rollout, in the order the claim gives them
StepPattern ==
    <<"append_unpredicted_features", "history_compute_stats", "history_normalize",
      "add_static_features", "model", "correct_bias", "history_denormalize",
      "add_residual", "update_internal_state", "append_history">>

\* C11: in a training-mode rollout the preprocessor and model calls of every
\* step come in the order history_compute_stats, history_normalize,
\* add_static_features, model, correct_bias, history_denormalize, add_residual
\* (after the step's append_unpredicted_features), so no update_internal_state
\* falls between a step's history_compute_stats and its history_denormalize;
\* the prediction is appended to the result right after add_residual; and
\* update_internal_state(replace_state=False) and then
\* append_history(input_i, pred_i, i) come only after pred_i is in the result.
C11_StepOrderAndAdvanceAfterAppend ==
    training =>
        LET calls == SelectSeq(m.log, LAMBDA e : e.fn # "detach")
            resid == CallsTo(m.log, "add_residual")
            aufs == CallsTo(m.log, "append_unpredicted_features")
            advances == SelectSeq(m.log,
                LAMBDA e : e.fn = "update_internal_state" /\ e.flag = "False")
            hists == CallsTo(m.log, "append_history")
        IN  /\ \A k \in 2..Len(calls) :
                   calls[k].fn = StepPattern[((k - 2) % Len(StepPattern)) + 1]
            /\ \A k \in 1..Len(calls) :
                   calls[k].fn = "update_internal_state" =>
                       (calls[k].flag = "False" <=> k > 1)
            \* the result holds the predictions of the finished add_residual calls
            /\ Len(m.result) <= Len(resid)
            /\ Len(resid) <= Len(m.result) + 1
            /\ Len(resid) = Len(m.result) + 1 => m.pc = "train:append"
            /\ \A i \in 1..Len(m.result) :
                   m.result[i] = add_residual(resid[i].args[1], resid[i].args[2])
            \* the state is advanced, and the history appended, after the append
            /\ Len(advances) <= Len(m.result)
            /\ Len(advances) <= n_future
            /\ \A i \in 1..Len(hists) :
                   /\ i <= Len(m.result)
                   /\ hists[i].flag = ToString(i - 1)
                   /\ hists[i].args = <<aufs[i].args[1], m.result[i]>>

C11_Witness ==
    /\ TrainDone
    /\ n_future = 2
    /\ Len(CallsTo(m.log, "append_history")) = 2
    /\ Len(m.result) = 3
    /\ CallsTo(m.log, "append_history")[2].args[2] = m.result[2]

\* ---- the weights under a distributed inverse transform

\* this rank's share of the inverse transform's modes
LocalModes(o) ==
    <<o.inverse_transform.l_shapes[o.rank[1] + 1], o.inverse_transform.m_shapes[o.rank[2] + 1]>>

\* the mode axes of SpectralConv's weight have this rank's local lengths
ConvWeightIsLocal(o) ==
    LET ws == o.attrs.weight_shape
        n == Len(ws)
    IN  IF o.operator_type = "diagonal"
        THEN ws[n - 1] = LocalModes(o)[1] /\ ws[n] = LocalModes(o)[2]
        ELSE ws[n] = LocalModes(o)[1]

\* the mode axis of SpectralAttention's weights has this rank's local length
AttnWeightIsLocal(o) ==
    o.operator_type = "l-dependant" =>
        /\ \A k \in 1..Len(o.attrs.w_shapes) : o.attrs.w_shapes[k][1] = LocalModes(o)[1]
        /\ o.attrs.wout_shape[1] = LocalModes(o)[1]

FinalizeEnded == vis.status = "ready" /\ vis.last.status \in {"returned", "raised"}

\* C13: when a finalize() call has ended, by return or by the exception of a
\* job's result, the pending-job queue is empty, and a finalize() that returns
\* has aggregated exactly the jobs added since the most recent reset() or
\* finalize() -- so that no job is aggregated by two finalize() calls.
C13_FinalizeEmptiesQueue ==
    FinalizeEnded =>
        /\ vis.requests = <<>>
        /\ vis.last.status = "returned" => vis.last.jobs = vis.last.since

====
